---- MODULE Spec2Model ----
(***************************************************************************)
(* Batch executor of os/src/batch.rs together with the process syscalls of *)
(* os/src/syscall/process.rs.                                              *)
(*                                                                         *)
(* Memory is modelled per region.  `mem` is the byte array that starts at  *)
(* APP_BASE_ADDRESS: offsets 0..APP_SIZE_LIMIT-1 are the execution window, *)
(* offsets from APP_SIZE_LIMIT on are the memory that follows the window.  *)
(* Addresses are records [base, off]: the bases of USER_STACK and          *)
(* KERNEL_STACK are fixed by the linker, only offsets are computed.        *)
(***************************************************************************)
EXTENDS Integers, Sequences, FiniteSets, TLC

\* ------------------------------------------------------------------ bounds
\* Capacity of the execution window in bytes (0x20000 in the source, scaled
\* down so that every byte of the window is a state component).
APP_SIZE_LIMIT == 2
\* How many bytes an application image may be larger than the window.
MaxOverrun == 1
\* Largest number of applications in the build-time descriptor.
MaxApps == 2
\* Largest whole second the clock reaches.
MaxSec == 1

\* --------------------------------------------------------------- constants
USER_STACK_SIZE == 8192
KERNEL_STACK_SIZE == 8192
MAX_APP_NUM == 16
MICRO_PER_SEC == 1000000
\* size_of::<TrapContext>(): 32 general registers, sstatus, sepc, 8 bytes each
TrapContextSize == 272

\* ------------------------------------------------------------------ values
Addr(b, o) == [base |-> b, off |-> o]
\* an entry address one instruction past the window base
APP_BASE_ADDRESS_off == Addr("APP_BASE", 4)

APP_BASE_ADDRESS == Addr("APP_BASE", 0)

NoContext == [sepc |-> Addr("none", 0), sp |-> Addr("none", 0), spp |-> "none"]
NoTimeVal == [sec |-> -1, usec |-> -1]
NoSyscall == [id |-> "none", ret |-> -1]
NoExit == 99

JUNK == 255
MemSize == APP_SIZE_LIMIT + MaxOverrun
MemRange == 0 .. (MemSize - 1)
Window == 0 .. (APP_SIZE_LIMIT - 1)

\* Byte stored at offset a of the read-only storage image: never zero and
\* different at different offsets, so that a byte in memory tells where it
\* was copied from.
StorageByte(a) == (a % 254) + 1

\* Values of the microsecond clock: the first and the last microsecond of
\* every second up to MaxSec.
ClockValues ==
  UNION { { s * MICRO_PER_SEC, s * MICRO_PER_SEC + (MICRO_PER_SEC - 1) } : s \in 0 .. MaxSec }

ExitCodes == {0, 1}
WriteBytes == {JUNK}

\* Build-time descriptors (link_app.S): num_app followed by num_app + 1
\* offsets into the storage image, application i occupying
\* [start[i], start[i+1]).
RECURSIVE SumTo(_, _)
SumTo(sizes, i) == IF i = 0 THEN 0 ELSE SumTo(sizes, i - 1) + sizes[i]

DescriptorOf(sizes) ==
  [num |-> Len(sizes), start |-> [i \in 0 .. Len(sizes) |-> SumTo(sizes, i)]]

\* Sizes of the embedded applications: one byte, exactly the window, and
\* more than the window.
AppSizes == {1, APP_SIZE_LIMIT, MemSize}

Descriptors ==
  { DescriptorOf(sizes) : sizes \in UNION { [1 .. n -> AppSizes] : n \in 0 .. MaxApps } }

\* Descriptors with an empty or an out-of-order range: consecutive offsets
\* that stay equal or step back.
MalformedDescriptors ==
  { [num |-> Len(steps), start |-> [i \in 0 .. Len(steps) |-> MaxApps + SumTo(steps, i)]] :
      steps \in { q \in UNION { [1 .. n -> {-1, 0, 1}] : n \in 1 .. MaxApps } :
                    \E i \in DOMAIN q : q[i] <= 0 } }

\* Descriptors of one-byte applications that fill the table exactly and that
\* exceed it by one.
FullDescriptors ==
  { DescriptorOf([i \in 1 .. n |-> 1]) : n \in {MAX_APP_NUM, MAX_APP_NUM + 1} }

AnyDescriptors == Descriptors \cup MalformedDescriptors \cup FullDescriptors

VARIABLES
  pc,            \* "boot", "ready", "user", "shutdown", "panic"
  descriptor,    \* the words at _num_app in the storage image
  lazy_init,     \* APP_MANAGER has been initialised
  borrowed,      \* the UPSafeCell of APP_MANAGER is exclusively borrowed
  num_app,       \* AppManager.num_app
  current_app,   \* AppManager.current_app
  app_start,     \* AppManager.app_start
  mem,           \* bytes from APP_BASE_ADDRESS on
  KERNEL_STACK,  \* contexts written into the kernel stack, by offset
  user_cx,       \* the context the application was last resumed from
  time_us,       \* the microsecond clock (timer::get_time_us)
  user_tv,       \* the TimeVal at the pointer passed to sys_get_time
  prev_tv,       \* the TimeVal the last sys_get_time overwrote
  last_syscall,  \* last syscall that returned to the application
  exit_code,     \* last exit code logged by sys_exit
  events         \* lifecycle events, in order

vars == << pc, descriptor, lazy_init, borrowed, num_app, current_app, app_start, mem,
           KERNEL_STACK, user_cx, time_us, user_tv, prev_tv, last_syscall, exit_code, events >>

\* ------------------------------------------------------------------ stacks
\* get_sp without the size of the stack added
USER_STACK_get_sp_base == Addr("USER_STACK", 0)

USER_STACK_get_sp == Addr("USER_STACK", 0 + USER_STACK_SIZE)

KERNEL_STACK_get_sp == 0 + KERNEL_STACK_SIZE

\* TrapContext::app_init_context(entry, sp)
app_init_context(entry, sp) == [sepc |-> entry, sp |-> sp, spp |-> "User"]

\* offset of the slot push_context writes
push_context_slot == KERNEL_STACK_get_sp - TrapContextSize

\* a push below the lowest context already on the stack
push_context_below(stack, cx) ==
  LET low == IF DOMAIN stack = {} THEN KERNEL_STACK_get_sp
             ELSE CHOOSE o \in DOMAIN stack : \A q \in DOMAIN stack : o <= q
  IN [o \in (DOMAIN stack) \cup {low - TrapContextSize} |->
        IF o = low - TrapContextSize THEN cx ELSE stack[o]]

push_context(stack, cx) ==
  [o \in (DOMAIN stack) \cup {push_context_slot} |->
     IF o = push_context_slot THEN cx ELSE stack[o]]

\* Contexts the trap entry can capture from a running application: the
\* syscall handler has moved sepc past the ecall instruction.
TrapContexts ==
  { [sepc |-> Addr("APP_BASE", p + 4), sp |-> Addr("USER_STACK", USER_STACK_SIZE - d), spp |-> "User"] :
      p \in {0}, d \in {16} }

\* ------------------------------------------------------------- AppManager
\* value of the lazily initialised APP_MANAGER, read from the descriptor
APP_MANAGER_new(d) ==
  [num_app |-> d.num,
   current_app |-> 0,
   app_start |-> [i \in 0 .. MAX_APP_NUM |-> IF i <= d.num THEN d.start[i] ELSE 0]]

\* a range check that lets one entry more through
APP_MANAGER_fits_more(n) == n <= MAX_APP_NUM + 1

\* app_start[..=num_app]: the range lies inside the MAX_APP_NUM + 1 entries
APP_MANAGER_fits(n) == n <= MAX_APP_NUM

\* the bound check with > in place of >=
load_app_exhausted_late(app_id) == app_id > num_app

\* load_app: app_id >= self.num_app
load_app_exhausted(app_id) == app_id >= num_app

\* load_app without the fill(0)
load_app_clear_skip(m) == m

\* load_app: the window after fill(0)
load_app_clear(m) == [k \in MemRange |-> IF k < APP_SIZE_LIMIT THEN 0 ELSE m[k]]

\* load_app: length of app_src
load_app_len(app_id) == app_start[app_id + 1] - app_start[app_id]

\* the copy reading from the end of the range instead of its start
load_app_copy_wrong(m, app_id) ==
  [k \in MemRange |->
     IF k < load_app_len(app_id) THEN StorageByte(app_start[app_id + 1] + k) ELSE m[k]]

\* load_app: app_dst.copy_from_slice(app_src) on memory m
load_app_copy(m, app_id) ==
  [k \in MemRange |->
     IF k < load_app_len(app_id) THEN StorageByte(app_start[app_id] + k) ELSE m[k]]

\* Memory after load_app(app_id), for app_id < num_app.
load_app(m, app_id) == load_app_copy(load_app_clear(m), app_id)

\* an increment by two
move_to_next_app_skip(cur) == cur + 2

\* move_to_next_app
move_to_next_app(cur) == cur + 1

\* ------------------------------------------------------------------- Init
InitWith(ds) ==
  /\ pc = "boot"
  /\ descriptor \in ds
  /\ lazy_init = FALSE
  /\ borrowed = FALSE
  /\ num_app = 0
  /\ current_app = 0
  /\ app_start = [i \in 0 .. MAX_APP_NUM |-> 0]
  /\ mem \in { [k \in MemRange |-> b] : b \in {0, JUNK} }
  /\ KERNEL_STACK = << >>
  /\ user_cx = NoContext
  /\ time_us = 0
  /\ user_tv = NoTimeVal
  /\ prev_tv = NoTimeVal
  /\ last_syscall = NoSyscall
  /\ exit_code = NoExit
  /\ events = << >>

\* the build embeds well-ordered application ranges
Init == InitWith(Descriptors)

\* any words at _num_app
InitAnyDescriptor == InitWith(AnyDescriptors)

\* ---------------------------------------------------------------- actions
\* UPSafeCell::exclusive_access panics when the cell is already borrowed
exclusive_access_free(b) == ~b

\* run_next_app without the drop of the handle
run_next_app_drop_missing(held) == held

\* run_next_app: drop(app_manager)
run_next_app_drop(held) == FALSE

\* batch::init(): print_app_info, the first access to APP_MANAGER
init ==
  /\ pc = "boot"
  /\ IF ~APP_MANAGER_fits(descriptor.num)
     THEN \* the slice index of the initialiser panics
          /\ pc' = "panic"
          /\ UNCHANGED << lazy_init, borrowed, num_app, current_app, app_start, events >>
     ELSE IF ~exclusive_access_free(borrowed)
     THEN /\ pc' = "panic"
          /\ lazy_init' = TRUE
          /\ UNCHANGED << borrowed, num_app, current_app, app_start, events >>
     ELSE LET m == APP_MANAGER_new(descriptor) IN
            /\ lazy_init' = TRUE
            /\ num_app' = m.num_app
            /\ current_app' = m.current_app
            /\ app_start' = m.app_start
            /\ events' = Append(events, << "num_app", m.num_app >>)
            \* the handle is a temporary of the statement
            /\ borrowed' = FALSE
            /\ pc' = "ready"
  /\ UNCHANGED << descriptor, mem, KERNEL_STACK, user_cx, time_us, user_tv, prev_tv, last_syscall, exit_code >>

\* batch::run_next_app(), called by a handler that has logged the events evs
\* and left the kernel stack as stack
run_next_app(evs, stack) ==
  LET app == current_app IN
    IF ~exclusive_access_free(borrowed)
    THEN \* already borrowed
         /\ pc' = "panic"
         /\ events' = evs
         /\ KERNEL_STACK' = stack
         /\ UNCHANGED << borrowed, current_app, mem, user_cx >>
    ELSE IF load_app_exhausted(app)
    THEN \* QEMU_EXIT_HANDLE.exit_success() does not return
         /\ pc' = "shutdown"
         /\ events' = evs \o << << "shutdown" >> >>
         /\ KERNEL_STACK' = stack
         /\ borrowed' = TRUE
         /\ UNCHANGED << current_app, mem, user_cx >>
    ELSE IF load_app_len(app) < 0
    THEN \* app_start[app_id + 1] - app_start[app_id] underflows after the
         \* window has been cleared: an overflow panic when the build checks
         \* arithmetic, otherwise a copy of a wrapped length that runs over
         \* all of memory until it faults
         /\ pc' = "panic"
         /\ events' = evs \o << << "load", app >> >>
         /\ \E wrapped \in BOOLEAN :
              mem' = IF wrapped
                     THEN [k \in MemRange |-> StorageByte(app_start[app] + k)]
                     ELSE load_app_clear(mem)
         /\ KERNEL_STACK' = stack
         /\ borrowed' = TRUE
         /\ UNCHANGED << current_app, user_cx >>
    ELSE /\ mem' = load_app(mem, app)
         /\ current_app' = move_to_next_app(current_app)
         /\ borrowed' = run_next_app_drop(TRUE)
         /\ KERNEL_STACK' = push_context(stack, app_init_context(APP_BASE_ADDRESS, USER_STACK_get_sp))
         /\ user_cx' = app_init_context(APP_BASE_ADDRESS, USER_STACK_get_sp)
         /\ pc' = "user"
         /\ events' = evs \o << << "load", app >>, << "enter", app >> >>

\* rust_main: run_next_app() after init()
first_run ==
  /\ pc = "ready"
  /\ run_next_app(events, KERNEL_STACK)
  /\ UNCHANGED << descriptor, lazy_init, num_app, app_start, time_us, user_tv, prev_tv, last_syscall, exit_code >>

\* __alltraps: the context of the trapping application is stored in the slot
\* below the top of the kernel stack
trap_capture(stack, cx) == push_context(stack, cx)

\* task::exit_current_and_run_next in the batch system: the lifecycle advance
exit_current_and_run_next(evs, stack) == run_next_app(evs, stack)

\* task::suspend_current_and_run_next in the batch system: no other task is
\* ready, the executor state is left alone
suspend_current_and_run_next == UNCHANGED << borrowed, current_app, mem, events >>

\* timer::get_time_us
get_time_us == time_us

\* the microseconds without the remainder
sys_get_time_TimeVal_nomod(us) == [sec |-> us \div MICRO_PER_SEC, usec |-> us]

\* the two fields exchanged
sys_get_time_TimeVal_swapped(us) == [sec |-> us % MICRO_PER_SEC, usec |-> us \div MICRO_PER_SEC]

\* sys_get_time: the TimeVal written to *ts
sys_get_time_TimeVal(us) == [sec |-> us \div MICRO_PER_SEC, usec |-> us % MICRO_PER_SEC]

\* sys_yield returning an error
sys_yield_ret_err == 0 - 1

\* return values of the syscalls
sys_yield_ret == 0
sys_get_time_ret == 0

\* the advance taken for the exit code 0 only
sys_exit_runs_next_zero(code) == code = 0

\* sys_exit: exit_current_and_run_next() is called whatever the exit code
sys_exit_runs_next(code) == TRUE

\* sys_exit(exit_code), from the trap of the running application
sys_exit ==
  /\ pc = "user"
  /\ \E code \in ExitCodes, cx \in TrapContexts :
       /\ exit_code' = code
       /\ IF sys_exit_runs_next(code)
          THEN exit_current_and_run_next(Append(events, << "exit" >>), trap_capture(KERNEL_STACK, cx))
          ELSE \* panic!("Unreachable in sys_exit!")
               /\ pc' = "panic"
               /\ events' = Append(events, << "exit" >>)
               /\ KERNEL_STACK' = trap_capture(KERNEL_STACK, cx)
               /\ UNCHANGED << borrowed, current_app, mem, user_cx >>
  /\ UNCHANGED << descriptor, lazy_init, num_app, app_start, time_us, user_tv, prev_tv, last_syscall >>

\* sys_yield(), from the trap of the running application to its resumption
sys_yield ==
  /\ pc = "user"
  /\ \E cx \in TrapContexts :
       /\ KERNEL_STACK' = trap_capture(KERNEL_STACK, cx)
       /\ user_cx' = cx
  /\ suspend_current_and_run_next
  /\ last_syscall' = [id |-> "yield", ret |-> sys_yield_ret]
  /\ UNCHANGED << pc, descriptor, lazy_init, num_app, app_start, time_us, user_tv, prev_tv, exit_code >>

\* Pointers an application can pass as ts: to a TimeVal of its own, and to
\* the words of APP_MANAGER (fields in the order of their declaration).
AppPointers == {"app"}
AnyPointers == {"app", "num_app", "current_app"}
WildLimit == MaxApps + 3

\* the record stored over the first words of APP_MANAGER whatever ts is
store_TimeVal_fixed(ts, tv) ==
  /\ num_app' = tv.sec
  /\ current_app' = tv.usec
  /\ UNCHANGED << user_tv, prev_tv, app_start >>

\* sys_get_time: *ts = TimeVal { .. }, two words stored at ts without a check
store_TimeVal(ts, tv) ==
  IF ts = "app"
  THEN /\ user_tv' = tv
       /\ prev_tv' = user_tv
       /\ UNCHANGED << num_app, current_app, app_start >>
  ELSE IF ts = "num_app"
  THEN /\ num_app' = tv.sec
       /\ current_app' = tv.usec
       /\ UNCHANGED << user_tv, prev_tv, app_start >>
  ELSE /\ current_app' = tv.sec
       /\ app_start' = [app_start EXCEPT ![0] = tv.usec]
       /\ UNCHANGED << user_tv, prev_tv, num_app >>

\* sys_get_time(ts, _tz), from the trap of the running application to its
\* resumption
sys_get_time_at(ptrs) ==
  /\ pc = "user"
  /\ \E cx \in TrapContexts :
       /\ KERNEL_STACK' = trap_capture(KERNEL_STACK, cx)
       /\ user_cx' = cx
  /\ \E ts \in ptrs : store_TimeVal(ts, sys_get_time_TimeVal(get_time_us))
  /\ last_syscall' = [id |-> "get_time", ret |-> sys_get_time_ret]
  /\ UNCHANGED << pc, descriptor, lazy_init, borrowed, mem, time_us, exit_code, events >>

\* sys_get_time called with a pointer into the application's memory
sys_get_time == sys_get_time_at(AppPointers)

\* sys_get_time called with any pointer; the calls with a pointer into the
\* executor are counted out after WildLimit events
sys_get_time_any ==
  \/ sys_get_time_at(AppPointers)
  \/ Len(events) < WildLimit /\ sys_get_time_at(AnyPointers \ AppPointers)

\* the running application stores a byte into the execution window
app_write ==
  /\ pc = "user"
  /\ \E k \in Window, b \in WriteBytes :
       /\ mem[k] # b
       /\ mem' = [mem EXCEPT ![k] = b]
  /\ UNCHANGED << pc, descriptor, lazy_init, borrowed, num_app, current_app, app_start, KERNEL_STACK,
                  user_cx, time_us, user_tv, prev_tv, last_syscall, exit_code, events >>

\* the clock advances while an application runs
tick ==
  /\ pc = "user"
  /\ \E t \in ClockValues :
       /\ t > time_us
       /\ time_us' = t
  /\ UNCHANGED << pc, descriptor, lazy_init, borrowed, num_app, current_app, app_start, mem, KERNEL_STACK,
                  user_cx, user_tv, prev_tv, last_syscall, exit_code, events >>

Next ==
  \/ init
  \/ first_run
  \/ sys_exit
  \/ sys_yield
  \/ sys_get_time
  \/ app_write
  \/ tick

Spec == Init /\ [][Next]_vars

\* Applications that pass any pointer to sys_get_time.
NextAnyPointer ==
  \/ init
  \/ first_run
  \/ sys_exit
  \/ sys_get_time_any
  \/ tick

SpecAnyPointer == Init /\ [][NextAnyPointer]_vars

\* Applications that terminate in the end: the boot sequence runs on and a
\* running application does not put off its terminate for ever.
SpecLive == Spec /\ WF_vars(init) /\ WF_vars(first_run) /\ WF_vars(sys_exit)

\* The executor started on any descriptor.
SpecAnyDescriptor == InitAnyDescriptor /\ [][Next]_vars

\* Applications that issue terminate as their first trap: no yield and no
\* get_time.
NextTerminateFirst ==
  \/ init
  \/ first_run
  \/ sys_exit
  \/ app_write
  \/ tick

SpecTerminateFirst == Init /\ [][NextTerminateFirst]_vars

\* ------------------------------------------------------------- properties
\* a step of run_next_app that loads an application
LoadStep == current_app' # current_app

\* a step of run_next_app, from rust_main or from sys_exit
AdvanceStep == pc \in {"ready", "user"} /\ pc' \in {"user", "shutdown", "panic"} /\ events' # events

InitContext == [sepc |-> Addr("APP_BASE", 0), sp |-> Addr("USER_STACK", 8192), spp |-> "User"]

\* index of the application entered last, -1 before the first Enter
RECURSIVE Entered(_)
Entered(evs) ==
  IF evs = << >> THEN -1
  ELSE IF evs[Len(evs)][1] = "enter" THEN evs[Len(evs)][2]
  ELSE Entered(SubSeq(evs, 1, Len(evs) - 1))

\* C1: after load(i) of a valid index i, whatever the window held before, the
\* first end[i]-start[i] bytes of the window are the storage-image bytes of
\* application i and every other byte of the window is zero.
C1_LoadFillsWindow ==
  [][LoadStep =>
       LET i == current_app
           n == app_start[i + 1] - app_start[i]
       IN /\ i < num_app
          /\ \A k \in Window :
               mem'[k] = IF k < n THEN StorageByte(app_start[i] + k) ELSE 0]_vars

\* C1 witness: a shorter application has been loaded over a longer one and
\* the window holds its bytes followed by zeros.
C1_Witness ==
  /\ pc = "user"
  /\ current_app = 2
  /\ exit_code # NoExit
  /\ app_start[1] - app_start[0] = APP_SIZE_LIMIT
  /\ app_start[2] - app_start[1] = 1
  /\ mem[0] = StorageByte(app_start[1])
  /\ \A k \in Window : k >= 1 => mem[k] = 0

C3_LastTerminateShutsDown ==
  [][/\ (sys_exit /\ Entered(events) = num_app - 1) =>
          /\ pc' = "shutdown"
          /\ mem' = mem
          /\ user_cx' = user_cx
          /\ current_app' = current_app
          /\ events' = events \o << << "exit" >>, << "shutdown" >> >>
     /\ pc = "shutdown" => UNCHANGED vars]_vars

\* C3 witness: the last of two applications has terminated, the machine is
\* shut down and the window still holds that application's first byte.
C3_Witness ==
  /\ pc = "shutdown"
  /\ num_app = 2
  /\ exit_code # NoExit
  /\ mem[0] = StorageByte(app_start[1])

\* C4: every Enter uses a context whose program counter is the window base
\* and whose stack pointer is the top of the user stack, for every
\* application.
C4_InitContext ==
  [][LoadStep =>
       /\ user_cx' = InitContext
       /\ KERNEL_STACK'[KERNEL_STACK_SIZE - TrapContextSize] = InitContext]_vars

\* C4 witness: the second application has been entered with that context
\* after the first one had trapped.
C4_Witness ==
  /\ pc = "user"
  /\ current_app = 2
  /\ last_syscall.id = "yield"
  /\ user_cx = InitContext

\* the events of a run of n applications that each terminate at once
RECURSIVE RunEvents(_)
RunEvents(n) ==
  IF n = 0 THEN << >>
  ELSE RunEvents(n - 1) \o << << "load", n - 1 >>, << "enter", n - 1 >>, << "exit" >> >>

ExpectedEvents(n) == << << "num_app", n >> >> \o RunEvents(n) \o << << "shutdown" >> >>

IsPrefix(a, b) == Len(a) <= Len(b) /\ a = SubSeq(b, 1, Len(a))

\* the storage-image bytes of application j
AppBytes(j) == { StorageByte(a) : a \in app_start[j] .. (app_start[j + 1] - 1) }

\* C5: when every application terminates as its first trap the events are
\* load 0, enter 0, terminate, ..., load n-1, enter n-1, terminate, success
\* shutdown, in this order and each once, and while an application runs the
\* window holds no byte of another application.
C5_SequentialRun ==
  /\ IsPrefix(events, ExpectedEvents(num_app))
  /\ pc = "shutdown" => events = ExpectedEvents(num_app)
  /\ pc = "user" =>
       \A j \in 0 .. (num_app - 1) :
         j # Entered(events) => \A k \in Window : mem[k] \notin AppBytes(j)

\* C5 witness: the second application runs after a first one that filled the
\* window, and a run of two applications has shut down.
C5_Witness ==
  /\ pc = "user"
  /\ num_app = 2
  /\ Entered(events) = 1
  /\ app_start[1] - app_start[0] >= APP_SIZE_LIMIT
  /\ app_start[2] - app_start[1] = 1
  /\ Len(events) = 6

C7_GetTimeSplit ==
  [][sys_get_time =>
       /\ user_tv'.sec >= 0
       /\ user_tv'.usec >= 0
       /\ user_tv'.usec < 1000000
       /\ user_tv'.sec * 1000000 + user_tv'.usec = time_us
       /\ last_syscall' = [id |-> "get_time", ret |-> 0]]_vars

\* C7 witness: get_time has been called one microsecond before a whole
\* second past the first.
C7_Witness ==
  /\ last_syscall.id = "get_time"
  /\ time_us = 1999999
  /\ user_tv = [sec |-> 1, usec |-> 999999]

TimeValLeq(a, b) == a.sec < b.sec \/ (a.sec = b.sec /\ a.usec <= b.usec)

\* C8: the record of a get_time call is not below the record of an earlier
\* call: seconds do not decrease, and with equal seconds microseconds do not
\* decrease.
C8_GetTimeMonotonic ==
  [][(sys_get_time /\ user_tv # NoTimeVal) => TimeValLeq(user_tv, user_tv')]_vars

\* C8 witness: two calls, the second in a later second with fewer
\* microseconds.
C8_Witness ==
  /\ last_syscall.id = "get_time"
  /\ prev_tv = [sec |-> 0, usec |-> 999999]
  /\ user_tv = [sec |-> 1, usec |-> 0]

\* C9: terminate always takes the lifecycle advance and never resumes the
\* application that issued it: either the machine shuts down, or the next
\* table entry is entered with a newly made initial context.
C9_TerminateNeverReturns ==
  [][sys_exit =>
       /\ pc' \in {"user", "shutdown"}
       /\ events' # events
       /\ pc' = "shutdown" => Entered(events') = Entered(events)
       /\ pc' = "user" =>
            /\ Entered(events') = Entered(events) + 1
            /\ user_cx'.sepc = Addr("APP_BASE", 0)
            /\ user_cx' \notin TrapContexts
            /\ KERNEL_STACK'[KERNEL_STACK_SIZE - TrapContextSize] = user_cx']_vars

\* C9 witness: the first application has yielded and then terminated, the
\* second one runs from the initial context.
C9_Witness ==
  /\ pc = "user"
  /\ exit_code = 1
  /\ last_syscall.id = "yield"
  /\ Entered(events) = 1
  /\ user_cx.sepc = Addr("APP_BASE", 0)

\* C10 as stated: the load of an application larger than the window ends in
\* the fatal halt, writes no byte outside the window and does not enter the
\* application.
C10_OversizedLoadIsFatal ==
  [][(AdvanceStep /\ current_app < num_app
        /\ app_start[current_app + 1] - app_start[current_app] > APP_SIZE_LIMIT) =>
       /\ pc' = "panic"
       /\ \A k \in MemRange \ Window : mem'[k] = mem[k]
       /\ Entered(events') = Entered(events)]_vars

\* C11: a descriptor whose count exceeds MAX_APP_NUM is fatal at the first
\* access of the table in init: nothing is loaded or entered, before or
\* after.
C11_CountOverflowIsFatal ==
  [][descriptor.num > 16 =>
       /\ pc = "boot" => pc' = "panic"
       /\ pc # "boot" => UNCHANGED vars
       /\ mem' = mem
       /\ events' = << >>
       /\ KERNEL_STACK' = << >>
       /\ lazy_init' = FALSE]_vars

\* C11 witness: init has panicked on a descriptor of 17 applications.
C11_Witness ==
  /\ pc = "panic"
  /\ descriptor.num = 17
  /\ ~lazy_init
  /\ events = << >>

\* C12 as stated: a descriptor with an empty or out-of-order range is fatal
\* in init, so whenever an application is loaded every range of the table
\* satisfies start[i] < end[i] <= start[i+1].
C12_MalformedIsFatal ==
  [][(pc = "boot" /\ \E i \in 0 .. (descriptor.num - 1) :
                        descriptor.start[i] >= descriptor.start[i + 1]) =>
       pc' = "panic"]_vars

\* C13 as stated: while application i executes, current_index is i, the
\* index of the application entered last.
C13_CurrentIndexIsRunning == pc = "user" => current_app = Entered(events)

\* C14: every context is written to the one slot at kernel stack top minus
\* the size of a context, so the kernel stack holds at most one context and
\* the slot never moves.
C14_OneContextSlot ==
  /\ DOMAIN KERNEL_STACK \subseteq {8192 - 272}
  /\ Cardinality(DOMAIN KERNEL_STACK) <= 1
  /\ pc = "user" => (DOMAIN KERNEL_STACK = {8192 - 272} /\ KERNEL_STACK[8192 - 272] = user_cx)

\* C14 witness: the second application has been entered through the same
\* slot as the first.
C14_Witness ==
  /\ pc = "user"
  /\ Entered(events) = 1
  /\ exit_code # NoExit
  /\ DOMAIN KERNEL_STACK = {7920}
  /\ KERNEL_STACK[7920] = InitContext

\* C15: what a terminate does to the lifecycle is fixed by the table and the
\* position in it, whatever the exit code: the same load, the same
\* current_index, the same window and the same shutdown.
C15_ExitCodeIndependent ==
  [][sys_exit =>
       LET k == Entered(events) + 1 IN
         /\ exit_code' \in {0, 1}
         /\ IF k < num_app
            THEN /\ pc' = "user"
                 /\ current_app' = k + 1
                 /\ events' = events \o << << "exit" >>, << "load", k >>, << "enter", k >> >>
                 /\ \A j \in Window :
                      mem'[j] = IF j < app_start[k + 1] - app_start[k]
                                THEN StorageByte(app_start[k] + j) ELSE 0
            ELSE /\ pc' = "shutdown"
                 /\ current_app' = current_app
                 /\ mem' = mem
                 /\ events' = events \o << << "exit" >>, << "shutdown" >> >>]_vars

\* C15 witness: the first application has terminated with a nonzero code and
\* the second one is loaded and running.
C15_Witness ==
  /\ pc = "user"
  /\ exit_code = 1
  /\ current_app = 2
  /\ events = << << "num_app", 2 >>, << "load", 0 >>, << "enter", 0 >>, << "exit" >>,
                 << "load", 1 >>, << "enter", 1 >> >>
  /\ mem[0] = StorageByte(app_start[1])

\* C16: with a well-formed table and applications that terminate in the end,
\* the executor reaches the success shutdown.
C16_EventuallyShutdown == <>(pc = "shutdown")

\* C16 witness: a run of two applications with yield and get_time calls has
\* shut down.
C16_Witness ==
  /\ pc = "shutdown"
  /\ num_app = 2
  /\ Len(events) = 8
  /\ last_syscall.id # "none"
  /\ user_tv # NoTimeVal

\* the executor state a get_time call has to leave alone
ExecutorUnchanged ==
  /\ current_app' = current_app
  /\ num_app' = num_app
  /\ app_start' = app_start
  /\ mem' = mem
  /\ events' = events
  /\ pc' = pc

\* C17 as stated: for every pointer passed as ts, get_time changes neither
\* current_index nor the table and loads or advances nothing.
C17_GetTimeReadOnly == [][sys_get_time_any => ExecutorUnchanged]_vars

\* C17 amended: for every pointer into the application's own memory,
\* get_time changes neither current_index nor the table, loads or advances
\* nothing, and writes only the two words of the record.
C17_GetTimeReadOnlyInApp ==
  [][sys_get_time =>
       /\ ExecutorUnchanged
       /\ user_tv'.sec * 1000000 + user_tv'.usec = time_us]_vars

\* C17 witness: the first of two applications has called get_time with a
\* pointer of its own in the second second, the executor state is as loaded.
C17_Witness ==
  /\ pc = "user"
  /\ last_syscall.id = "get_time"
  /\ user_tv = [sec |-> 1, usec |-> 0]
  /\ num_app = 2
  /\ current_app = 1
  /\ events = << << "num_app", 2 >>, << "load", 0 >>, << "enter", 0 >> >>

\* C18: current_index stays within 0 .. count(), and a load never reads
\* app_start past its last entry.
C18_IndexWithinTable ==
  /\ current_app >= 0
  /\ current_app <= num_app
  /\ num_app <= 16
  /\ (pc \in {"ready", "user"} /\ current_app < num_app) => current_app + 1 \in DOMAIN app_start

\* C18 witness: a full table of 16 applications has been run to the end.
C18_Witness ==
  /\ pc = "shutdown"
  /\ num_app = 16
  /\ current_app = 16

\* C19: the exclusive access to APP_MANAGER is free at every acquisition and
\* released before an application is entered.
C19_ExclusiveAccessReleased ==
  [][/\ pc' \in {"ready", "user"} => ~borrowed'
     /\ AdvanceStep => (~borrowed /\ pc' \in {"user", "shutdown"})]_vars

\* C19 witness: the second application runs after a get_time call, with the
\* exclusive access released.
C19_Witness ==
  /\ pc = "user"
  /\ ~borrowed
  /\ Entered(events) = 1
  /\ last_syscall.id = "get_time"
====
